---- MODULE Spec2Model ----
(***************************************************************************)
(* WhatsApp RAG voice agent: the webhook's per-message flows               *)
(* (app/routers/whatsapp.py), the audio adapter's temporary files          *)
(* (app/services/audio_service.py), the transport's send                   *)
(* (app/services/whatsapp_client.py) and the RAGEngine singleton           *)
(* (app/services/rag_service.py).                                          *)
(*                                                                         *)
(* Spec    : one webhook delivery, one asyncio task per normalized message.*)
(* SpecRag : threads constructing RAGEngine() concurrently and querying it.*)
(***************************************************************************)
EXTENDS Integers, Sequences, FiniteSets, TLC

\* ------------------------------------------------------------------ bounds
MaxMsgs == 2

NumThreads == 2

\* ------------------------------------------------------------- value sets
None == "None"

Engine == "Engine"

Unset == "unset"

NoInput == "No input provided."

Apology == "Ocurrio un error procesando tu mensaje. Por favor, intenta nuevamente."

Clarify == "No recibi texto. Puedes intentarlo de nuevo?"

Senders == {"u1", "u2"}

Texts == {"", "Hola"}

\* what the transcription backend may return
Transcripts == {"", "Hola"}

\* what the completion / retrieval backend may return
Responses == {"", "ans"}

MediaId == "mid"

\* normalized messages, as _extract_messages builds them
TextMsg(f, t) == [from |-> f, type |-> "text", text |-> t, audio_id |-> None]

AudioMsg(f, a) == [from |-> f, type |-> "audio", text |-> None, audio_id |-> a]

NormalizedMessages ==
    {TextMsg(f, t) : f \in Senders, t \in Texts} \cup {AudioMsg(f, "a1") : f \in Senders}

SeqsUpTo(S, n) == UNION {[1..k -> S] : k \in 0..n}

\* ---------------------------------------------------------- webhook payloads
\* JSON values as request.json() returns them: None, a number, a str, a list,
\* a dict. The number stands for any value of a wrong type; it is not zero.
JNull == [t |-> "null"]

JNum == [t |-> "num"]

JStr(s) == [t |-> "str", s |-> s]

JList(q) == [t |-> "list", items |-> q]

JObj(f) == [t |-> "obj", fields |-> f]

EmptyObj == JObj(<< >>)

EmptyList == JList(<< >>)

\* Python truth value (whatsapp.py:33 "if not from_id", 45 "if audio_id")
Truthy(v) ==
    CASE v.t = "null" -> FALSE
      [] v.t = "num" -> TRUE
      [] v.t = "str" -> v.s # ""
      [] v.t = "list" -> v.items # << >>
      [] v.t = "obj" -> DOMAIN v.fields # {}

\* dict.get(k, d), for o a dict
Get(o, k, d) == IF k \in DOMAIN o.fields THEN o.fields[k] ELSE d

\* x.get(...) raises AttributeError unless x is a dict
HasGet(v) == v.t = "obj"

\* "for x in v" raises TypeError for None and for a number
Iterable(v) == v.t \notin {"null", "num"}

\* what a run of the normalizer gives: a list, or an exception
Ok(out) == [ran |-> TRUE, err |-> FALSE, out |-> out]

Raised == [ran |-> TRUE, err |-> TRUE, out |-> << >>]

\* the normalizer has not run yet
NotRun == [ran |-> FALSE, err |-> FALSE, out |-> << >>]

\* whatsapp.py:31-53: the body of the innermost loop, for one message entry:
\* the normalized messages it appends (none or one), or an exception.
\* message.get("text", {}).get("body", "") and message.get("audio", {}).get("id")
\* call get on what the first get returned (lines 40, 44, 51)
ExtractOne(message) ==
    IF ~HasGet(message) THEN Raised
    ELSE
    LET msg_type == Get(message, "type", JNull)
        from_id == Get(message, "from", JNull)
        text == Get(message, "text", EmptyObj)
        audio == Get(message, "audio", EmptyObj)
    IN IF ~Truthy(from_id) THEN Ok(<< >>)
       ELSE IF msg_type = JStr("text")
       THEN IF ~HasGet(text) THEN Raised
            ELSE Ok(<<[from |-> from_id, type |-> "text",
                       text |-> Get(text, "body", JStr(""))]>>)
       ELSE IF msg_type = JStr("audio")
       THEN IF ~HasGet(audio) THEN Raised
            ELSE LET audio_id == Get(audio, "id", JNull)
                 IN IF Truthy(audio_id)
                    THEN Ok(<<[from |-> from_id, type |-> "audio", audio_id |-> audio_id,
                               mime_type |-> Get(audio, "mime_type", JNull)]>>)
                    ELSE Ok(<< >>)
       ELSE Ok(<< >>)

\* whatsapp.py:30: for message in value.get("messages", [])
RECURSIVE ForMessages(_)
ForMessages(q) ==
    IF q = << >> THEN Ok(<< >>)
    ELSE LET h == ExtractOne(Head(q))
         IN IF h.err THEN Raised
            ELSE LET r == ForMessages(Tail(q))
                 IN IF r.err THEN Raised ELSE Ok(h.out \o r.out)

\* whatsapp.py:29-30: one change
ExtractChange(change) ==
    IF ~HasGet(change) THEN Raised
    ELSE LET value == Get(change, "value", EmptyObj)
         IN IF ~HasGet(value) THEN Raised
            ELSE LET msgs == Get(value, "messages", EmptyList)
                 IN IF ~Iterable(msgs) THEN Raised ELSE ForMessages(msgs.items)

\* whatsapp.py:28: for change in entry.get("changes", [])
RECURSIVE ForChanges(_)
ForChanges(q) ==
    IF q = << >> THEN Ok(<< >>)
    ELSE LET h == ExtractChange(Head(q))
         IN IF h.err THEN Raised
            ELSE LET r == ForChanges(Tail(q))
                 IN IF r.err THEN Raised ELSE Ok(h.out \o r.out)

ExtractEntry(entry) ==
    IF ~HasGet(entry) THEN Raised
    ELSE LET changes == Get(entry, "changes", EmptyList)
         IN IF ~Iterable(changes) THEN Raised ELSE ForChanges(changes.items)

\* whatsapp.py:27: for entry in payload.get("entry", [])
RECURSIVE ForEntries(_)
ForEntries(q) ==
    IF q = << >> THEN Ok(<< >>)
    ELSE LET h == ExtractEntry(Head(q))
         IN IF h.err THEN Raised
            ELSE LET r == ForEntries(Tail(q))
                 IN IF r.err THEN Raised ELSE Ok(h.out \o r.out)

\* whatsapp.py:25-54: the list of normalized messages, or an exception
ExtractMessages(body) ==
    IF ~HasGet(body) THEN Raised
    ELSE LET entries == Get(body, "entry", EmptyList)
         IN IF ~Iterable(entries) THEN Raised ELSE ForEntries(entries.items)

\* the envelope {entry:[{changes:[{value:{messages:[...]}}]}]} around messages
Envelope(msgs) ==
    JObj([entry |-> JList(<<JObj([changes |-> JList(<<JObj([value |->
        JObj([messages |-> msgs])])>>)])>>)])

RawText(f, body) == JObj([from |-> f, type |-> JStr("text"), text |-> body])

RawAudio(f, audio) == JObj([from |-> f, type |-> JStr("audio"), audio |-> audio])

\* message entries of a delivery: well-formed ones, ones the normalizer drops
\* (no sender, unknown type, audio with no media id) and ones whose text or
\* audio member is null
WellFormedEntries ==
    {RawText(JStr(f), JObj([body |-> JStr(t)])) : f \in Senders, t \in Texts}
    \cup {RawAudio(JStr(f), JObj([id |-> JStr("a1")])) : f \in Senders}

DroppedEntries ==
    { JObj([type |-> JStr("text"), text |-> JObj([body |-> JStr("Hola")])]),
      JObj([from |-> JStr("u1"), type |-> JStr("image")]),
      RawAudio(JStr("u1"), EmptyObj) }

NullMemberEntries == {RawText(JStr("u1"), JNull), RawAudio(JStr("u1"), JNull)}

DeliveryEntries == WellFormedEntries \cup DroppedEntries \cup NullMemberEntries

DeliveryPayloads ==
    {Envelope(JList(q)) : q \in SeqsUpTo(DeliveryEntries, MaxMsgs)}
    \cup {EmptyObj, JObj([entry |-> JNull])}

\* message entries for the normalizer alone: also a missing text member, a null
\* body, a sender or a member of a wrong type, a MIME hint, an empty media id,
\* a null entry
NormalizerEntries ==
    DeliveryEntries
    \cup { JObj([from |-> JStr("u1"), type |-> JStr("text")]),
           RawText(JStr("u1"), JObj([body |-> JNull])),
           RawText(JNum, JObj([body |-> JStr("Hola")])),
           RawText(JStr("u1"), JNum),
           RawAudio(JStr("u2"), JObj([id |-> JStr("a1"), mime_type |-> JStr("audio/mpeg")])),
           RawAudio(JStr("u2"), JObj([id |-> JStr("")])),
           JObj([from |-> JStr("u1"), type |-> JNull]),
           JNull }

\* envelopes with a level missing, null or of a wrong type
MalformedEnvelopes ==
    { EmptyObj, JNull, JNum,
      JObj([entry |-> JNull]), JObj([entry |-> JNum]), JObj([entry |-> JList(<<JNull>>)]),
      JObj([entry |-> JList(<<EmptyObj>>)]),
      JObj([entry |-> JList(<<JObj([changes |-> JNull])>>)]),
      JObj([entry |-> JList(<<JObj([changes |-> JList(<<EmptyObj>>)])>>)]),
      JObj([entry |-> JList(<<JObj([changes |-> JList(<<JObj([value |-> JNull])>>)])>>)]),
      JObj([entry |-> JList(<<JObj([changes |-> JList(<<JObj([value |-> EmptyObj])>>)])>>)]),
      Envelope(JNull), Envelope(JNum) }

NormalizerPayloads ==
    {Envelope(JList(q)) : q \in SeqsUpTo(NormalizerEntries, MaxMsgs)} \cup MalformedEnvelopes

\* a normalized message as the tasks read it: its sender, its text or media id
TaskMessage(m) ==
    IF m.type = "text" THEN TextMsg(m.from.s, m.text.s) ELSE AudioMsg(m.from.s, m.audio_id.s)

VARIABLES
    payload,      \* the JSON body of the POST
    norm,         \* what _extract_messages gave for it, NotRun before it ran
    messages,     \* the normalized messages of the delivery
    hpc,          \* receive_message: "recv", "gather", "returned", "raised"
    response,     \* the status receive_message returned, None before
    task,         \* per message: the coroutine's position and locals
    log,          \* per message: the external calls it made, in order
    files,        \* the temporary files that exist on disk
    instance,     \* RAGEngine._instance (0 is None)
    lock,         \* RAGEngine._lock holder (0 is free)
    nobj,         \* RAGEngine objects allocated so far
    query_engine, \* per object: _query_engine (Unset before __init__ assigns it)
    initialized,  \* per object: hasattr(_initialized) and _initialized
    buildCount,   \* executions of _build_query_engine
    thr           \* per thread: position and locals in RAGEngine() / query

routerVars == <<payload, norm, messages, hpc, response, task, log, files>>

ragVars == <<instance, lock, nobj, query_engine, initialized, buildCount, thr>>

vars == <<payload, norm, messages, hpc, response, task, log, files,
          instance, lock, nobj, query_engine, initialized, buildCount, thr>>

Tasks == 1..Len(messages)

\* the positions a delivery's messages can take
MsgIds == 1..MaxMsgs

Threads == 1..NumThreads

\* ------------------------------------------------- RAGEngine.query routing
\* rag_service.py:65-75: the empty check comes first, then the mode check
QueryRouteModeFirst(prompt, qe) ==
    IF qe = None THEN "complete"
    ELSE IF prompt = "" THEN "noinput"
    ELSE "retrieve"

QueryRouteInverted(prompt, qe) ==
    IF prompt = "" THEN "noinput"
    ELSE IF qe = None THEN "retrieve"
    ELSE "complete"

QueryRoute(prompt, qe) ==
    IF prompt = "" THEN "noinput"
    ELSE IF qe = None THEN "complete"
    ELSE "retrieve"

\* ------------------------------------------- WhatsAppClient.send_message
\* whatsapp_client.py:68-73: a media id makes an audio payload; otherwise the
\* text must be non-empty (ValueError)
SendPayloadValid(text, media_id) == media_id # None \/ text # ""

SendKind(text, media_id) == IF media_id # None THEN "audio" ELSE "text"

\* temporary files: NamedTemporaryFile gives every call a fresh name
TmpIn(i) == <<i, "in">>

TmpOut(i) == <<i, "out">>

Call(op, arg, to, ok) == [op |-> op, arg |-> arg, to |-> to, ok |-> ok]

\* self: the object __new__ returned to the running constructor call; held: the
\* object the thread's last completed RAGEngine() call returned (0 is none);
\* mode0 / seen: _query_engine when query was called / when line 67 read it
IdleThread == [pc |-> "idle", self |-> 0, held |-> 0, env |-> None, built |-> None,
               prompt |-> None, mode0 |-> None, seen |-> Unset, calls |-> {},
               result |-> None]

NewTask == [pc |-> "start", transcript |-> None, rag_response |-> None,
            media_id |-> None, exc |-> FALSE]

Running(i) == task[i].pc \notin {"done", "escaped"}

\* ---------------------------------------------------------- receive_message
\* whatsapp.py:75-81: an exception of _extract_messages leaves the handler (the
\* server answers 500); no message -> "ignored"; else one coroutine per message
ReceiveMessage ==
    /\ hpc = "recv"
    /\ LET r == ExtractMessages(payload)
       IN /\ norm' = r
          /\ IF r.err
             THEN /\ hpc' = "raised"
                  /\ response' = "error"
                  /\ UNCHANGED <<messages, task, log>>
             ELSE IF r.out = << >>
             THEN /\ hpc' = "returned"
                  /\ response' = "ignored"
                  /\ UNCHANGED <<messages, task, log>>
             ELSE /\ hpc' = "gather"
                  /\ messages' = [i \in 1..Len(r.out) |-> TaskMessage(r.out[i])]
                  /\ task' = [i \in 1..Len(r.out) |-> NewTask]
                  /\ log' = [i \in 1..Len(r.out) |-> << >>]
                  /\ UNCHANGED response
    /\ UNCHANGED <<payload, files>>
    /\ UNCHANGED ragVars

\* a gather that gives up at the first exception leaving a task
GatherFirstException ==
    \/ \A i \in Tasks : ~Running(i)
    \/ \E i \in Tasks : task[i].pc = "escaped"

\* a wait that ends when the first task has ended
GatherAnyDone == \E i \in Tasks : ~Running(i)

\* whatsapp.py:82: gather(*tasks, return_exceptions=True) ends when every task
\* has ended, by return or by exception
GatherDone == \A i \in Tasks : ~Running(i)

GatherReturn ==
    /\ hpc = "gather"
    /\ GatherDone
    /\ hpc' = "returned"
    /\ response' = "processed"
    /\ UNCHANGED <<payload, norm, messages, task, log, files>>
    /\ UNCHANGED ragVars

\* a task runs once gather has scheduled it
Scheduled(i) == hpc = "gather" /\ i \in Tasks

Goto(i, where) == task' = [task EXCEPT ![i].pc = where]

Logged(i, c) == log' = [log EXCEPT ![i] = Append(@, c)]

\* a handle_message without its except clause: an exception leaves the task
RaiseTargetNoBoundary(where) ==
    IF where \in {"a_transcribe", "a_query", "a_synth", "a_upload", "a_send", "a_unlink"}
    THEN "a_finally"
    ELSE "escaped"

\* where an exception raised at the task's position goes: inside the try of
\* _handle_audio_flow (whatsapp.py:132-157) the finally runs first; inside
\* handle_message's try (88-92) the except clause runs; inside the except
\* clause (93-99) it leaves the task
RaiseTarget(where) ==
    IF where \in {"a_transcribe", "a_query", "a_synth", "a_upload", "a_send", "a_unlink"}
    THEN "a_finally"
    ELSE IF where = "except" THEN "escaped"
    ELSE "except"

Raise(i) ==
    task' = [task EXCEPT ![i].pc = RaiseTarget(task[i].pc), ![i].exc = TRUE]

\* a text flow without the check of whatsapp.py:104: every text is queried
HandleMessageNoEmptyCheck(i) ==
    /\ Scheduled(i)
    /\ task[i].pc = "start"
    /\ Goto(i, IF messages[i].type = "text" THEN "t_query" ELSE "a_download")
    /\ UNCHANGED <<payload, norm, messages, hpc, response, log, files>>
    /\ UNCHANGED ragVars

\* ------------------------------------------------------------ handle_message
\* whatsapp.py:89-92 and 104: dispatch on the type, and on the empty text
HandleMessage(i) ==
    /\ Scheduled(i)
    /\ task[i].pc = "start"
    /\ Goto(i, IF messages[i].type = "text"
               THEN (IF messages[i].text = "" THEN "t_clarify" ELSE "t_query")
               ELSE "a_download")
    /\ UNCHANGED <<payload, norm, messages, hpc, response, log, files>>
    /\ UNCHANGED ragVars

\* one call of WHATSAPP_CLIENT.send_message in a worker thread
SendStep(i, text, media_id, netOk, next) ==
    LET ok == SendPayloadValid(text, media_id) /\ netOk
        arg == [kind |-> SendKind(text, media_id), text |-> text, media_id |-> media_id]
    IN /\ Logged(i, Call("send", arg, messages[i].from, ok))
       /\ IF ok THEN Goto(i, next) ELSE Raise(i)

\* whatsapp.py:104-110
TextClarify(i) ==
    /\ Scheduled(i)
    /\ task[i].pc = "t_clarify"
    /\ \E netOk \in BOOLEAN : SendStep(i, Clarify, None, netOk, "done")
    /\ UNCHANGED <<payload, norm, messages, hpc, response, files>>
    /\ UNCHANGED ragVars

\* RAG_ENGINE.query(prompt) in a worker thread (rag_service.py:64-78); the
\* engine was constructed when the router module was imported
QueryStep(i, prompt, next) ==
    LET route == QueryRoute(prompt, query_engine[instance])
    IN IF route = "noinput"
       THEN /\ Logged(i, Call("query", [prompt |-> prompt, route |-> route], None, TRUE))
            /\ task' = [task EXCEPT ![i].pc = next, ![i].rag_response = NoInput]
       ELSE \E ok \in BOOLEAN, r \in Responses :
            /\ Logged(i, Call("query", [prompt |-> prompt, route |-> route], None, ok))
            /\ IF ok
               THEN task' = [task EXCEPT ![i].pc = next, ![i].rag_response = r]
               ELSE Raise(i)

\* whatsapp.py:112
TextQuery(i) ==
    /\ Scheduled(i)
    /\ task[i].pc = "t_query"
    /\ QueryStep(i, messages[i].text, "t_send")
    /\ UNCHANGED <<payload, norm, messages, hpc, response, files>>
    /\ UNCHANGED ragVars

\* whatsapp.py:114
TextSend(i) ==
    /\ Scheduled(i)
    /\ task[i].pc = "t_send"
    /\ \E netOk \in BOOLEAN : SendStep(i, task[i].rag_response, None, netOk, "done")
    /\ UNCHANGED <<payload, norm, messages, hpc, response, files>>
    /\ UNCHANGED ragVars

\* ---------------------------------------------------------- _handle_audio_flow
\* whatsapp.py:125: download_media in a worker thread
AudioDownload(i) ==
    /\ Scheduled(i)
    /\ task[i].pc = "a_download"
    /\ \E ok \in BOOLEAN :
        /\ Logged(i, Call("download", messages[i].audio_id, None, ok))
        /\ IF ok THEN Goto(i, "a_persist") ELSE Raise(i)
    /\ UNCHANGED <<payload, norm, messages, hpc, response, files>>
    /\ UNCHANGED ragVars

\* whatsapp.py:127-130: NamedTemporaryFile(delete=False) creates the file, the
\* with block writes it and closes it; the try that unlinks it starts at 132
PersistOutcomes == {"create_fail", "write_fail", "ok"}

AudioPersist(i) ==
    /\ Scheduled(i)
    /\ task[i].pc = "a_persist"
    /\ \E o \in PersistOutcomes :
        /\ Logged(i, Call("persist", o, None, o = "ok"))
        /\ files' = IF o = "create_fail" THEN files ELSE files \cup {TmpIn(i)}
        /\ IF o = "ok" THEN Goto(i, "a_transcribe") ELSE Raise(i)
    /\ UNCHANGED <<payload, norm, messages, hpc, response>>
    /\ UNCHANGED ragVars

\* whatsapp.py:135 and audio_service.py:23-45: FileNotFoundError when the path
\* is missing, else the backend's text or its exception
AudioTranscribe(i) ==
    /\ Scheduled(i)
    /\ task[i].pc = "a_transcribe"
    /\ \E backendOk \in BOOLEAN, t \in Transcripts :
        LET ok == TmpIn(i) \in files /\ backendOk
        IN /\ Logged(i, Call("transcribe", TmpIn(i), None, ok))
           /\ IF ok
              THEN task' = [task EXCEPT ![i].pc = "a_query", ![i].transcript = t]
              ELSE Raise(i)
    /\ UNCHANGED <<payload, norm, messages, hpc, response, files>>
    /\ UNCHANGED ragVars

\* whatsapp.py:140
AudioQuery(i) ==
    /\ Scheduled(i)
    /\ task[i].pc = "a_query"
    /\ QueryStep(i, task[i].transcript, "a_synth")
    /\ UNCHANGED <<payload, norm, messages, hpc, response, files>>
    /\ UNCHANGED ragVars

\* whatsapp.py:144 and audio_service.py:51-68: with no output path the temporary
\* file is created (delete=False) before the voice backend is called
SynthOutcomes == {"create_fail", "tts_fail", "ok"}

AudioSynth(i) ==
    /\ Scheduled(i)
    /\ task[i].pc = "a_synth"
    /\ \E o \in SynthOutcomes :
        /\ Logged(i, Call("synth", task[i].rag_response, None, o = "ok"))
        /\ files' = IF o = "create_fail" THEN files ELSE files \cup {TmpOut(i)}
        /\ IF o = "ok" THEN Goto(i, "a_upload") ELSE Raise(i)
    /\ UNCHANGED <<payload, norm, messages, hpc, response>>
    /\ UNCHANGED ragVars

\* an audio flow that goes on to the send when the upload raised
AudioUploadIgnoreFailure(i) ==
    /\ Scheduled(i)
    /\ task[i].pc = "a_upload"
    /\ \E netOk \in BOOLEAN :
        LET ok == TmpOut(i) \in files /\ netOk
        IN /\ Logged(i, Call("upload", TmpOut(i), None, ok))
           /\ task' = [task EXCEPT ![i].pc = "a_send",
                                   ![i].media_id = IF ok THEN MediaId ELSE None]
    /\ UNCHANGED <<payload, norm, messages, hpc, response, files>>
    /\ UNCHANGED ragVars

\* whatsapp.py:148 and whatsapp_client.py:45-57
AudioUpload(i) ==
    /\ Scheduled(i)
    /\ task[i].pc = "a_upload"
    /\ \E netOk \in BOOLEAN :
        LET ok == TmpOut(i) \in files /\ netOk
        IN /\ Logged(i, Call("upload", TmpOut(i), None, ok))
           /\ IF ok
              THEN task' = [task EXCEPT ![i].pc = "a_send", ![i].media_id = MediaId]
              ELSE Raise(i)
    /\ UNCHANGED <<payload, norm, messages, hpc, response, files>>
    /\ UNCHANGED ragVars

\* whatsapp.py:152
AudioSend(i) ==
    /\ Scheduled(i)
    /\ task[i].pc = "a_send"
    /\ \E netOk \in BOOLEAN : SendStep(i, "", task[i].media_id, netOk, "a_unlink")
    /\ UNCHANGED <<payload, norm, messages, hpc, response, files>>
    /\ UNCHANGED ragVars

\* whatsapp.py:155: audio_path.unlink(missing_ok=True), inside the try
AudioUnlink(i) ==
    /\ Scheduled(i)
    /\ task[i].pc = "a_unlink"
    /\ \E ok \in BOOLEAN :
        /\ Logged(i, Call("unlink", TmpOut(i), None, ok))
        /\ files' = IF ok THEN files \ {TmpOut(i)} ELSE files
        /\ IF ok THEN Goto(i, "a_finally") ELSE Raise(i)
    /\ UNCHANGED <<payload, norm, messages, hpc, response>>
    /\ UNCHANGED ragVars

\* whatsapp.py:156-157: finally: tmp_path.unlink(missing_ok=True); a pending
\* exception then goes on to handle_message's except clause
AudioFinally(i) ==
    /\ Scheduled(i)
    /\ task[i].pc = "a_finally"
    /\ \E ok \in BOOLEAN :
        /\ Logged(i, Call("unlink", TmpIn(i), None, ok))
        /\ files' = IF ok THEN files \ {TmpIn(i)} ELSE files
        /\ task' = [task EXCEPT ![i].pc = IF task[i].exc \/ ~ok THEN "except" ELSE "done",
                                ![i].exc = task[i].exc \/ ~ok]
    /\ UNCHANGED <<payload, norm, messages, hpc, response>>
    /\ UNCHANGED ragVars

\* an except clause that addresses the apology to the delivery's first sender
ExceptFirstSender(i) ==
    /\ Scheduled(i)
    /\ task[i].pc = "except"
    /\ \E netOk \in BOOLEAN :
        /\ Logged(i, Call("send", [kind |-> "text", text |-> Apology, media_id |-> None],
                          messages[1].from, netOk))
        /\ IF netOk THEN Goto(i, "done") ELSE Raise(i)
    /\ UNCHANGED <<payload, norm, messages, hpc, response, files>>
    /\ UNCHANGED ragVars

\* whatsapp.py:93-99: the apology; an exception raised here leaves the task
Except(i) ==
    /\ Scheduled(i)
    /\ task[i].pc = "except"
    /\ \E netOk \in BOOLEAN : SendStep(i, Apology, None, netOk, "done")
    /\ UNCHANGED <<payload, norm, messages, hpc, response, files>>
    /\ UNCHANGED ragVars

\* ------------------------------------------------------------ specification
\* The router module constructs RAG_ENGINE when it is imported (whatsapp.py:22),
\* on one thread: the singleton exists and its mode is fixed before any delivery.
Init ==
    /\ payload \in DeliveryPayloads
    /\ norm = NotRun
    /\ messages = << >>
    /\ hpc = "recv"
    /\ response = None
    /\ task = << >>
    /\ log = << >>
    /\ files = {}
    /\ instance = 1
    /\ lock = 0
    /\ nobj = 1
    /\ query_engine \in [{1} -> {None, Engine}]
    /\ initialized = [o \in {1} |-> TRUE]
    /\ buildCount = 1
    /\ thr = [t \in Threads |-> IdleThread]

TaskStep(i) ==
    \/ HandleMessage(i)
    \/ TextClarify(i)
    \/ TextQuery(i)
    \/ TextSend(i)
    \/ AudioDownload(i)
    \/ AudioPersist(i)
    \/ AudioTranscribe(i)
    \/ AudioQuery(i)
    \/ AudioSynth(i)
    \/ AudioUpload(i)
    \/ AudioSend(i)
    \/ AudioUnlink(i)
    \/ AudioFinally(i)
    \/ Except(i)

Next ==
    \/ ReceiveMessage
    \/ GatherReturn
    \/ \E i \in MsgIds : TaskStep(i)

Spec == Init /\ [][Next]_vars

\* ------------------------------------------------------------------ RAGEngine
\* what the environment gives one execution of _build_query_engine
BuildExceptions == {"llm_fail", "embed_fail", "loader_fail", "index_fail"}

BuildEnvs == {"nodir", "nodocs", "ok"} \cup BuildExceptions

\* a try that covers the two model constructors only
BuildCaughtModelsOnly(e) == e \in {"llm_fail", "embed_fail"}

\* rag_service.py:45-62: the try covers the models, the loader and the index
BuildCaught(e) == e \in BuildExceptions

\* rag_service.py:39-62: None (fallback), a query engine, or an exception
BuildOutcome(e) ==
    IF e = "nodir" THEN None
    ELSE IF e \in BuildExceptions THEN (IF BuildCaught(e) THEN None ELSE "raise")
    ELSE IF e = "nodocs" THEN None
    ELSE Engine

\* a second check that is skipped
InstanceIsNoneUnchecked == TRUE

\* rag_service.py:27: the check repeated under the lock
InstanceIsNoneLocked == instance = 0

At(t, where) == thr[t].pc = where

ThrGoto(t, where) == thr' = [thr EXCEPT ![t].pc = where]

\* a thread calls RAGEngine(): type.__call__ runs __new__, then __init__
CtorCall(t) ==
    /\ thr[t].pc \in {"idle", "returned"}
    /\ ThrGoto(t, "new_check1")
    /\ UNCHANGED <<instance, lock, nobj, query_engine, initialized, buildCount>>
    /\ UNCHANGED routerVars

\* rag_service.py:25
NewCheck1(t) ==
    /\ At(t, "new_check1")
    /\ ThrGoto(t, IF instance = 0 THEN "new_lock" ELSE "new_return")
    /\ UNCHANGED <<instance, lock, nobj, query_engine, initialized, buildCount>>
    /\ UNCHANGED routerVars

\* rag_service.py:26: with cls._lock (acquire)
NewLock(t) ==
    /\ At(t, "new_lock")
    /\ lock = 0
    /\ lock' = t
    /\ ThrGoto(t, "new_check2")
    /\ UNCHANGED <<instance, nobj, query_engine, initialized, buildCount>>
    /\ UNCHANGED routerVars

\* rag_service.py:27
NewCheck2(t) ==
    /\ At(t, "new_check2")
    /\ ThrGoto(t, IF InstanceIsNoneLocked THEN "new_alloc" ELSE "new_unlock")
    /\ UNCHANGED <<instance, lock, nobj, query_engine, initialized, buildCount>>
    /\ UNCHANGED routerVars

\* rag_service.py:28: a new object, with no attribute set
NewAlloc(t) ==
    /\ At(t, "new_alloc")
    /\ nobj' = nobj + 1
    /\ instance' = nobj + 1
    /\ query_engine' = [o \in 1..(nobj + 1) |-> IF o <= nobj THEN query_engine[o] ELSE Unset]
    /\ initialized' = [o \in 1..(nobj + 1) |-> IF o <= nobj THEN initialized[o] ELSE FALSE]
    /\ ThrGoto(t, "new_unlock")
    /\ UNCHANGED <<lock, buildCount>>
    /\ UNCHANGED routerVars

\* rag_service.py:26-28: leaving the with block (release)
NewUnlock(t) ==
    /\ At(t, "new_unlock")
    /\ lock' = 0
    /\ ThrGoto(t, "new_return")
    /\ UNCHANGED <<instance, nobj, query_engine, initialized, buildCount>>
    /\ UNCHANGED routerVars

\* rag_service.py:29
NewReturn(t) ==
    /\ At(t, "new_return")
    /\ thr' = [thr EXCEPT ![t].pc = "init_check", ![t].self = instance]
    /\ UNCHANGED <<instance, lock, nobj, query_engine, initialized, buildCount>>
    /\ UNCHANGED routerVars

\* rag_service.py:32-33
InitCheck(t) ==
    /\ At(t, "init_check")
    /\ IF initialized[thr[t].self]
       THEN thr' = [thr EXCEPT ![t].pc = "returned", ![t].held = thr[t].self]
       ELSE ThrGoto(t, "init_build")
    /\ UNCHANGED <<instance, lock, nobj, query_engine, initialized, buildCount>>
    /\ UNCHANGED routerVars

\* rag_service.py:35-36: the right-hand side, self._build_query_engine()
InitBuild(t) ==
    /\ At(t, "init_build")
    /\ buildCount' = buildCount + 1
    /\ \E e \in BuildEnvs :
        IF BuildOutcome(e) = "raise"
        THEN thr' = [thr EXCEPT ![t].pc = "ctor_raised", ![t].env = e]
        ELSE thr' = [thr EXCEPT ![t].pc = "init_assign", ![t].env = e,
                                ![t].built = BuildOutcome(e)]
    /\ UNCHANGED <<instance, lock, nobj, query_engine, initialized>>
    /\ UNCHANGED routerVars

\* rag_service.py:36: the assignment to self._query_engine
InitAssign(t) ==
    /\ At(t, "init_assign")
    /\ query_engine' = [query_engine EXCEPT ![thr[t].self] = thr[t].built]
    /\ ThrGoto(t, "init_flag")
    /\ UNCHANGED <<instance, lock, nobj, initialized, buildCount>>
    /\ UNCHANGED routerVars

\* rag_service.py:37, and the constructor call returns
InitFlag(t) ==
    /\ At(t, "init_flag")
    /\ initialized' = [initialized EXCEPT ![thr[t].self] = TRUE]
    /\ thr' = [thr EXCEPT ![t].pc = "returned", ![t].held = thr[t].self,
                          ![t].env = None, ![t].built = None]
    /\ UNCHANGED <<instance, lock, nobj, query_engine, buildCount>>
    /\ UNCHANGED routerVars

\* a thread that holds the engine calls query(prompt)
QueryCall(t) ==
    /\ At(t, "returned")
    /\ \E p \in Texts :
        thr' = [thr EXCEPT ![t].pc = "q_route", ![t].prompt = p,
                           ![t].mode0 = query_engine[thr[t].held],
                           ![t].seen = Unset, ![t].calls = {}, ![t].result = None]
    /\ UNCHANGED <<instance, lock, nobj, query_engine, initialized, buildCount>>
    /\ UNCHANGED routerVars

\* rag_service.py:65-67: the empty check, then the read of self._query_engine
QueryDispatch(t) ==
    /\ At(t, "q_route")
    /\ LET qe == query_engine[thr[t].held]
           route == QueryRoute(thr[t].prompt, qe)
       IN thr' = [thr EXCEPT ![t].pc = IF route = "noinput" THEN "q_done"
                                       ELSE IF route = "complete" THEN "q_complete"
                                       ELSE "q_retrieve",
                             ![t].seen = IF thr[t].prompt = "" THEN Unset ELSE qe,
                             ![t].result = IF route = "noinput" THEN NoInput ELSE None]
    /\ UNCHANGED <<instance, lock, nobj, query_engine, initialized, buildCount>>
    /\ UNCHANGED routerVars

\* rag_service.py:68-73: Gemini(...).complete(...)
QueryComplete(t) ==
    /\ At(t, "q_complete")
    /\ \E ok \in BOOLEAN, r \in Responses :
        thr' = [thr EXCEPT ![t].pc = IF ok THEN "q_done" ELSE "q_raised",
                           ![t].calls = @ \cup {"complete"},
                           ![t].result = IF ok THEN r ELSE None]
    /\ UNCHANGED <<instance, lock, nobj, query_engine, initialized, buildCount>>
    /\ UNCHANGED routerVars

\* rag_service.py:75-78: self._query_engine is read again; None has no query
QueryRetrieve(t) ==
    /\ At(t, "q_retrieve")
    /\ IF query_engine[thr[t].held] # Engine
       THEN ThrGoto(t, "q_raised")
       ELSE \E ok \in BOOLEAN, r \in Responses :
            thr' = [thr EXCEPT ![t].pc = IF ok THEN "q_done" ELSE "q_raised",
                               ![t].calls = @ \cup {"retrieve"},
                               ![t].result = IF ok THEN r ELSE None]
    /\ UNCHANGED <<instance, lock, nobj, query_engine, initialized, buildCount>>
    /\ UNCHANGED routerVars

\* query returns or raises to the thread, which still holds the engine
QueryReturn(t) ==
    /\ thr[t].pc \in {"q_done", "q_raised"}
    /\ thr' = [thr EXCEPT ![t].pc = "returned", ![t].prompt = None, ![t].mode0 = None,
                          ![t].seen = Unset, ![t].calls = {}, ![t].result = None]
    /\ UNCHANGED <<instance, lock, nobj, query_engine, initialized, buildCount>>
    /\ UNCHANGED routerVars

\* the class before any construction; no delivery is in progress
InitRag ==
    /\ payload = EmptyObj
    /\ norm = NotRun
    /\ messages = << >>
    /\ hpc = "recv"
    /\ response = None
    /\ task = << >>
    /\ log = << >>
    /\ files = {}
    /\ instance = 0
    /\ lock = 0
    /\ nobj = 0
    /\ query_engine = << >>
    /\ initialized = << >>
    /\ buildCount = 0
    /\ thr = [t \in Threads |-> IdleThread]

ThreadStep(t) ==
    \/ CtorCall(t)
    \/ NewCheck1(t)
    \/ NewLock(t)
    \/ NewCheck2(t)
    \/ NewAlloc(t)
    \/ NewUnlock(t)
    \/ NewReturn(t)
    \/ InitCheck(t)
    \/ InitBuild(t)
    \/ InitAssign(t)
    \/ InitFlag(t)
    \/ QueryCall(t)
    \/ QueryDispatch(t)
    \/ QueryComplete(t)
    \/ QueryRetrieve(t)
    \/ QueryReturn(t)

NextRag == \E t \in Threads : ThreadStep(t)

SpecRag == InitRag /\ [][NextRag]_vars

\* ------------------------------------------------------- _extract_messages
\* the normalizer applied to one payload, on its own
InitNorm ==
    /\ payload \in NormalizerPayloads
    /\ norm = NotRun
    /\ messages = << >>
    /\ hpc = "recv"
    /\ response = None
    /\ task = << >>
    /\ log = << >>
    /\ files = {}
    /\ instance = 1
    /\ lock = 0
    /\ nobj = 1
    /\ query_engine = [o \in {1} |-> None]
    /\ initialized = [o \in {1} |-> TRUE]
    /\ buildCount = 1
    /\ thr = [t \in Threads |-> IdleThread]

\* whatsapp.py:76: messages = _extract_messages(body)
Normalize ==
    /\ ~norm.ran
    /\ norm' = ExtractMessages(payload)
    /\ UNCHANGED <<payload, messages, hpc, response, task, log, files>>
    /\ UNCHANGED ragVars

NextNorm == Normalize

SpecNorm == InitNorm /\ [][NextNorm]_vars

\* ===================================================================== claims
\* the sends of task i that succeeded, in order
Sends(i) == SelectSeq(log[i], LAMBDA c : c.op = "send" /\ c.ok)

\* the first of task i's own calls that failed (None when none did)
OwnFailedOp(i) ==
    IF \A k \in 1..Len(log[i]) : log[i][k].ok
    THEN None
    ELSE log[i][CHOOSE k \in 1..Len(log[i]) :
                    /\ ~log[i][k].ok
                    /\ \A j \in 1..(k - 1) : log[i][j].ok].op

\* the answer message i gets when its own flow succeeds: the clarification, the
\* query's text, or the uploaded audio
AnswerSend(i) ==
    LET m == messages[i]
    IN IF m.type = "audio"
       THEN Call("send", [kind |-> "audio", text |-> "", media_id |-> MediaId], m.from, TRUE)
       ELSE Call("send", [kind |-> "text",
                          text |-> IF m.text = "" THEN Clarify ELSE task[i].rag_response,
                          media_id |-> None], m.from, TRUE)

ApologySend(i) ==
    Call("send", [kind |-> "text", text |-> Apology, media_id |-> None], messages[i].from, TRUE)

\* what message i's task sends when it runs alone with the outcomes its own
\* calls had: the answer unless one of its calls failed before the answer was
\* sent, then the apology if a call failed and the apology went through
SoloSends(i) ==
    (IF OwnFailedOp(i) \in {None, "unlink"} THEN <<AnswerSend(i)>> ELSE << >>)
    \o (IF OwnFailedOp(i) # None /\ task[i].pc = "done" THEN <<ApologySend(i)>> ELSE << >>)

FlowExited(i) == task[i].pc \in {"except", "done", "escaped"}

SynthCalled(i, ok) ==
    \E k \in 1..Len(log[i]) : log[i][k].op = "synth" /\ log[i][k].ok = ok

\* C1: when the webhook call has returned for a delivery of several messages,
\* every task has run to its end, a task is marked failed only if one of its
\* own calls failed, and each task's sends are those of its flow run alone,
\* whatever happened in the other tasks.
C1_Isolation ==
    (hpc = "returned" /\ messages # << >>)
        => \A i \in Tasks :
            /\ ~Running(i)
            /\ task[i].exc = (OwnFailedOp(i) # None)
            /\ Sends(i) = SoloSends(i)

\* C1 witness: the call has returned; message A's flow raised and so did its
\* apology, while message B got its answer and no apology.
C1_Witness ==
    /\ hpc = "returned"
    /\ \E a, b \in Tasks :
        /\ a # b
        /\ task[a].pc = "escaped"
        /\ task[b].pc = "done"
        /\ ~task[b].exc
        /\ Sends(b) = <<AnswerSend(b)>>

\* C2: once the audio flow has returned or raised, the temporary file holding
\* the downloaded media does not exist, whichever step failed.
C2_DownloadedTmpCleanup ==
    \A i \in Tasks : FlowExited(i) => TmpIn(i) \notin files

\* C3: once synthesis has succeeded, the synthesized temporary file is deleted
\* by the time the flow exits, whether upload and send succeed or fail.
C3_SynthesizedCleanup ==
    \A i \in Tasks : (FlowExited(i) /\ SynthCalled(i, TRUE)) => TmpOut(i) \notin files

\* C4: if synthesis itself fails, no second temporary audio file exists after
\* the flow exits.
C4_NoFileWhenSynthFails ==
    \A i \in Tasks : (FlowExited(i) /\ SynthCalled(i, FALSE)) => TmpOut(i) \notin files

QueryFinished(t) == thr[t].pc \in {"q_done", "q_raised"}

InQuery(t) == thr[t].pc \in {"q_route", "q_complete", "q_retrieve", "q_done", "q_raised"}

\* C5: under any interleaving of threads calling RAGEngine() for the first
\* time, _build_query_engine is executed at most once in the process.
C5_BuildAtMostOnce == buildCount <= 1

\* C6: every RAGEngine() call returns the same object: at most one RAGEngine
\* object is ever allocated, and any two threads that got an object from
\* __new__ or from a completed call got the same one.
C6_SingleSharedInstance ==
    /\ nobj <= 1
    /\ \A t1, t2 \in Threads :
        /\ (thr[t1].self # 0 /\ thr[t2].self # 0) => thr[t1].self = thr[t2].self
        /\ (thr[t1].held # 0 /\ thr[t2].held # 0) => thr[t1].held = thr[t2].held

\* C6 witness: one thread's call has returned the object while another thread,
\* which found _instance None at line 25, holds the lock before the second check.
C6_Witness ==
    \E t1, t2 \in Threads :
        /\ t1 # t2
        /\ thr[t1].pc = "new_check2"
        /\ instance # 0
        /\ thr[t2].held = instance

\* C7: once any RAGEngine() call has returned, the engine's mode (whether
\* _query_engine is None) never changes afterwards.
C7_ModeImmutable ==
    [][(\E t \in Threads : thr[t].held # 0)
       => query_engine'[instance'] = query_engine[instance]]_vars

C9_EmptyPromptNoBackend ==
    \A t \in Threads :
        (InQuery(t) /\ thr[t].prompt = "")
            => /\ thr[t].calls = {}
               /\ thr[t].pc \in {"q_route", "q_done"}
               /\ thr[t].pc = "q_done" => thr[t].result = NoInput

\* C9 witness: query("") has returned the no-input message on an engine in
\* fallback mode, where a mode check made first would have called the backend.
C9_Witness ==
    \E t \in Threads :
        /\ thr[t].pc = "q_done"
        /\ thr[t].prompt = ""
        /\ thr[t].result = NoInput
        /\ thr[t].mode0 = None
        /\ query_engine[thr[t].held] = None

LastCall(i) == log[i][Len(log[i])]

\* the apology send of task i, attempted and raised
FailedApology(i) ==
    Call("send", [kind |-> "text", text |-> Apology, media_id |-> None], messages[i].from, FALSE)

\* C11 as stated: when a message's task has finished, a send to its sender has
\* succeeded, whatever failed in the flow.
C11_SenderAlwaysReached ==
    \A i \in Tasks : ~Running(i) => Sends(i) # << >>

\* C11 amended: when a message's task has finished, a send to its sender has
\* succeeded (every successful send of the task is addressed to it), or the
\* task attempted the apology as its last call and that send raised, the
\* exception leaving the task.
C11_ReachedOrApologyRaised ==
    \A i \in Tasks :
        /\ \A k \in 1..Len(Sends(i)) : Sends(i)[k].to = messages[i].from
        /\ task[i].pc = "done" => Sends(i) # << >>
        /\ task[i].pc = "escaped" => (log[i] # << >> /\ LastCall(i) = FailedApology(i))

\* C11 witness: the delivery has returned; one message's flow failed and its
\* sender got the apology, another's failed and the apology raised, so that
\* its sender got nothing.
C11_Witness ==
    /\ hpc = "returned"
    /\ \E a, b \in Tasks :
        /\ task[a].pc = "done" /\ task[a].exc /\ Sends(a) = <<ApologySend(a)>>
        /\ task[b].pc = "escaped" /\ Sends(b) = << >>

\* C12: the POST handler always returns a status: "ignored", with no task
\* started and no downstream call made, when normalization found no message,
\* and "processed" otherwise, whatever became of the tasks.
C12_WebhookStatus ==
    /\ hpc # "raised"
    /\ hpc = "returned"
        => response = IF messages = << >> THEN "ignored" ELSE "processed"
    /\ messages = << >> => (task = << >> /\ log = << >>)

\* a normalized entry's kind agrees with the member it carries
KindConsistent(m) ==
    IF m.type = "text"
    THEN "text" \in DOMAIN m /\ "audio_id" \notin DOMAIN m
    ELSE /\ m.type = "audio"
         /\ "audio_id" \in DOMAIN m
         /\ Truthy(m.audio_id)
         /\ "text" \notin DOMAIN m

\* C13: for every payload, with members missing, null or of a wrong type,
\* normalization raises no exception and every entry of its result has a kind
\* consistent with the member it carries.
C13_NormalizeNeverRaises ==
    norm.ran
        => /\ ~norm.err
           /\ \A k \in 1..Len(norm.out) : KindConsistent(norm.out[k])

\* an entry the normalizer is to drop: no sender, a type that is neither text
\* nor audio, or type audio with no media id
HasMediaId(e) ==
    /\ "audio" \in DOMAIN e.fields
    /\ e.fields.audio.t = "obj"
    /\ Truthy(Get(e.fields.audio, "id", JNull))

ToBeDropped(e) ==
    /\ e.t = "obj"
    /\ \/ ~Truthy(Get(e, "from", JNull))
       \/ Get(e, "type", JNull) \notin {JStr("text"), JStr("audio")}
       \/ Get(e, "type", JNull) = JStr("audio") /\ ~HasMediaId(e)

Without(q, k) == [j \in 1..(Len(q) - 1) |-> IF j < k THEN q[j] ELSE q[j + 1]]

\* C14: an entry with no sender, an unknown type, or type audio without a media
\* id does not appear in the output, and the output is what normalization gives
\* for the same payload without that entry.
C14_DroppedEntry ==
    norm.ran
        => \A q \in SeqsUpTo(NormalizerEntries, MaxMsgs) :
            payload = Envelope(JList(q))
                => \A k \in 1..Len(q) :
                    ToBeDropped(q[k])
                        => norm = ExtractMessages(Envelope(JList(Without(q, k))))

\* the query calls task i made, in order
Queries(i) == SelectSeq(log[i], LAMBDA c : c.op = "query")

TextArg(text) == [kind |-> "text", text |-> text, media_id |-> None]

\* C15: a text flow with empty text first sends the clarification to the sender
\* and never queries; with non-empty text it queries once, first, with the raw
\* text, and then sends the text the query returned to the same sender. A flow
\* that ended without a failure made exactly these calls.
C15_TextFlow ==
    \A i \in Tasks :
        messages[i].type = "text"
            => LET m == messages[i]
                   l == log[i]
               IN IF m.text = ""
                  THEN /\ Queries(i) = << >>
                       /\ l # << >> => /\ l[1].op = "send"
                                       /\ l[1].arg = TextArg(Clarify)
                                       /\ l[1].to = m.from
                       /\ (task[i].pc = "done" /\ ~task[i].exc)
                            => l = <<Call("send", TextArg(Clarify), m.from, TRUE)>>
                  ELSE /\ Len(Queries(i)) <= 1
                       /\ l # << >> => /\ l[1].op = "query"
                                       /\ l[1].arg.prompt = m.text
                       /\ (Len(l) >= 2 /\ l[1].ok)
                            => /\ l[2].op = "send"
                               /\ l[2].arg = TextArg(task[i].rag_response)
                               /\ l[2].to = m.from
                       /\ (task[i].pc = "done" /\ ~task[i].exc)
                            => /\ Len(l) = 2
                               /\ l[1].ok
                               /\ l[2].ok

\* C15 witness: both text flows have ended without a failure, one for an empty
\* text with the clarification sent, one for "Hola" with the query's text sent.
C15_Witness ==
    \E a, b \in Tasks :
        /\ messages[a].type = "text" /\ messages[a].text = ""
        /\ task[a].pc = "done" /\ ~task[a].exc
        /\ Sends(a) = <<Call("send", TextArg(Clarify), messages[a].from, TRUE)>>
        /\ messages[b].type = "text" /\ messages[b].text = "Hola"
        /\ task[b].pc = "done" /\ ~task[b].exc
        /\ Len(Queries(b)) = 1
        /\ Sends(b) = <<Call("send", TextArg(task[b].rag_response), messages[b].from, TRUE)>>

\* the apology sends task i attempted, in order
Apologies(i) == SelectSeq(log[i], LAMBDA c : c.op = "send" /\ c.arg.text = Apology)

\* C16: a task in which a step raised attempts the apology exactly once, as
\* its last call, addressed to its own message's sender, and a task in which
\* no step raised attempts none; the task ends by an exception exactly when the
\* apology send raised, and a task is failed only by a call of its own.
C16_FailureBoundary ==
    \A i \in Tasks :
        /\ Len(Apologies(i)) <= 1
        /\ Apologies(i) # << >>
            => /\ task[i].exc
               /\ LastCall(i) = Apologies(i)[1]
               /\ Apologies(i)[1].to = messages[i].from
               /\ Apologies(i)[1].arg = TextArg(Apology)
               /\ ~Running(i)
        /\ ~Running(i) => (task[i].exc <=> Apologies(i) # << >>)
        /\ task[i].pc = "escaped" <=> (Apologies(i) # << >> /\ ~Apologies(i)[1].ok)
        /\ task[i].exc <=> OwnFailedOp(i) # None

\* C16 witness: the handler has answered "processed"; an audio message's
\* transcription raised and its sender got the apology, and for a message of
\* another sender the apology send raised and the exception left the task.
C16_Witness ==
    /\ response = "processed"
    /\ \E a, b \in Tasks :
        /\ messages[a].from # messages[b].from
        /\ messages[a].type = "audio"
        /\ OwnFailedOp(a) = "transcribe"
        /\ task[a].pc = "done"
        /\ Apologies(a) = <<ApologySend(a)>>
        /\ task[b].pc = "escaped"
        /\ Apologies(b) = <<FailedApology(b)>>

\* the deletion of the synthesized file by task i, attempted and raised
FailedOutUnlink(i) == Call("unlink", TmpOut(i), None, FALSE)

\* C17: when the only call of a task that failed is the deletion of the
\* synthesized file after the audio reply was sent, no exception is pending or
\* has left the audio flow, and no apology is attempted.
C17_OutUnlinkFailureTolerated ==
    \A i \in Tasks :
        (\A k \in 1..Len(log[i]) : ~log[i][k].ok => log[i][k] = FailedOutUnlink(i))
            => /\ ~task[i].exc
               /\ task[i].pc \notin {"except", "escaped"}
               /\ Apologies(i) = << >>

\* C18: a delivery with N normalized messages starts N tasks, and when the
\* handler has answered "processed" every one of them has been started and has
\* ended, by return or by an exception leaving it.
C18_JoinBeforeResponse ==
    /\ hpc \in {"gather", "returned"}
        => /\ Len(task) = Len(norm.out)
           /\ Len(messages) = Len(norm.out)
    /\ response = "processed"
        => /\ hpc = "returned"
           /\ Tasks # {}
           /\ \A i \in Tasks : task[i].pc \in {"done", "escaped"}

\* C18 witness: "processed" has been answered for two messages; the audio
\* flow of one returned, the flow of the other failed and was recovered.
C18_Witness ==
    /\ response = "processed"
    /\ Len(norm.out) = MaxMsgs
    /\ \E a, b \in Tasks :
        /\ messages[a].type = "audio" /\ task[a].pc = "done" /\ ~task[a].exc
        /\ task[b].pc = "done" /\ task[b].exc

AudioOrder == <<"download", "persist", "transcribe", "query", "synth", "upload", "send">>

\* the calls of the audio flow proper: all but the deletions and the apology
FlowCalls(i) ==
    SelectSeq(log[i], LAMBDA c : c.op # "unlink" /\ ~(c.op = "send" /\ c.arg.text = Apology))

\* C19: the calls of an audio flow are, in this order, download, persist,
\* transcribe, query, synthesize, upload, send, each made once and only after
\* the one before it succeeded, before any deletion or apology; the send is an
\* audio message with empty text, the media id the upload returned, to the
\* message's sender.
C19_AudioOrder ==
    \A i \in Tasks :
        messages[i].type = "audio"
            => LET f == FlowCalls(i)
               IN /\ Len(f) <= Len(AudioOrder)
                  /\ \A k \in 1..Len(f) :
                        /\ f[k].op = AudioOrder[k]
                        /\ log[i][k] = f[k]
                        /\ k < Len(f) => f[k].ok
                  /\ task[i].media_id # None <=> (Len(f) >= 6 /\ f[6].ok)
                  /\ Len(f) = Len(AudioOrder)
                        => /\ f[7].arg = [kind |-> "audio", text |-> "",
                                          media_id |-> task[i].media_id]
                           /\ f[7].to = messages[i].from

\* C19 witness: an audio flow has made its seven calls, all of them
\* succeeded, and has returned.
C19_Witness ==
    \E i \in Tasks :
        /\ messages[i].type = "audio"
        /\ Len(FlowCalls(i)) = Len(AudioOrder)
        /\ \A k \in 1..Len(FlowCalls(i)) : FlowCalls(i)[k].ok
        /\ task[i].pc = "done"
        /\ ~task[i].exc

\* C20: at most one send of a message's task succeeds: the apology is never
\* sent after the answer was sent, a failing cleanup after the send included.
C20_AtMostOneReply ==
    \A i \in Tasks : Len(Sends(i)) <= 1

====
